---- MODULE Spec2Model ----
(***************************************************************************)
(* Verification model of the eduMFA token slice:                           *)
(*   - mTimeOtp.checkOtp            (edumfa/lib/tokens/mOTP.py)            *)
(*   - SmsTokenClass                (edumfa/lib/tokens/smstoken.py)        *)
(* A run drives one token object, of type "motp" or of type "sms".         *)
(***************************************************************************)
EXTENDS Integers, Sequences, FiniteSets, TLC

VARIABLES
    tokentype,   \* the class of the token object driven: "motp" or "sms"
    motp,        \* the mTimeOtp object, the arguments of its call and the result
    pin,         \* the token's PIN
    active,      \* token.active
    count,       \* token.count, the stored OTP counter
    challenges,  \* the persisted Challenge rows of the token
    created,     \* number of Challenge rows created so far (the next row id)
    accepted,    \* OTP values a verification has accepted so far, each with
                 \* whether the saved challenge data gave the match
    call,        \* the last SmsTokenClass call: arguments, effects, outcome
    vchal,       \* one challenge followed through time: the configured
                 \* timeout, the row's creation time and validity, the clock
    fed,         \* one run of FederationEventHandler.do: the request, the
                 \* handler options, the relay call and options["response"]
    app,         \* one call of the machine application API and its result
    send,        \* one call of SmsTokenClass._send_sms followed step by step:
                 \* template, gateway identifiers, rendering, channel call
    workers      \* create_challenge calls running concurrently on one token:
                 \* each worker's position and local values

smsvars == <<pin, active, count, challenges, created, accepted, call>>
\* the state outside the two token objects
extvars == <<vchal, fed, app, send, workers>>
vars == <<tokentype, motp, pin, active, count, challenges, created, accepted, call, vchal, fed, app, send, workers>>

(***************************************************************************)
(* Bounds of the model.                                                    *)
(***************************************************************************)
\* largest window argument handed to mTimeOtp.checkOtp
MaxWindow == 2
\* largest base time slice (initTime) handed to mTimeOtp.checkOtp
MaxTime == 2
\* largest number of slices whose digest is the value "x"
MaxHits == 2
\* largest value of the stored OTP counter
MaxCount == 3
\* largest number of Challenge rows created in a run
MaxChallenges == 1
\* largest count window handed to check_otp
MaxCountWindow == 1

(***************************************************************************)
(* Shared helpers.                                                         *)
(***************************************************************************)
\* the not-found sentinel: res = -1
NotFound == -1

SetMin(S) == CHOOSE x \in S : \A y \in S : x <= y

\* a missing dictionary entry (options.get(...) returning None)
NoneVal == <<"none">>

\* edumfa.lib.crypto.safe_compare: constant-time comparison of two values
SafeCompare(a, b) == a # NoneVal /\ b # NoneVal /\ a = b

(***************************************************************************)
(* mTimeOtp.checkOtp                                                       *)
(***************************************************************************)
\* digests of the model: calcOtp truncates an md5 digest, so distinct slices
\* may share a value; "z" is the digest of no slice
MotpDigests == {<<"d", "x">>, <<"d", "y">>}
MotpSubmitted == MotpDigests \cup {<<"d", "z">>}

\* base time slices int(time.time() // 10): positive, and far enough from 0
\* for every scanned slice to be positive
FirstTime == 2 * MaxWindow + 2
Times == FirstTime..(FirstTime + MaxTime - 1)
Windows == 0..MaxWindow
\* every slice a scan can visit, and one more on each side
Slices == (FirstTime - 2 * MaxWindow - 1)..(FirstTime + MaxTime - 1 + 2 * MaxWindow)
\* oldtime: 0 for an object that accepted nothing yet, or a slice
OldTimes == 0..(FirstTime + MaxTime - 1 + 2 * MaxWindow)

\* window = window * 2
ScanWindow(window) == window * 2

\* range(otime - window, otime + window), window already doubled
ScanRange(otime, window) ==
    (otime - ScanWindow(window))..(otime + ScanWindow(window) - 1)

\* mutation of ScanFirstMatch: the scan keeps the last match of the range
ScanLastMatch(calc, anOtpVal, otime, window) ==
    LET hits == {i \in ScanRange(otime, window) : SafeCompare(anOtpVal, calc[i])}
    IN  IF hits = {} THEN NotFound ELSE -SetMin({-i : i \in hits})

\* the for loop: the first i of the range whose calcOtp equals anOtpVal, else -1
ScanFirstMatch(calc, anOtpVal, otime, window) ==
    LET hits == {i \in ScanRange(otime, window) : SafeCompare(anOtpVal, calc[i])}
    IN  IF hits = {} THEN NotFound ELSE SetMin(hits)

\* mutation of ReplayRule: the comparison lets the last accepted slice through
ReplayRuleAdmitsEqual(res, oldtime) == IF res < oldtime THEN NotFound ELSE res

\* "prevent access twice with last motp"
ReplayRule(res, oldtime) == IF res <= oldtime THEN NotFound ELSE res

\* mutation of checkOtp: the scan passes over the slices at or below oldtime
checkOtpSkipsUsed(calc, anOtpVal, window, otime, oldtime) ==
    LET hits == {i \in ScanRange(otime, window) :
                    SafeCompare(anOtpVal, calc[i]) /\ i > oldtime}
    IN  IF hits = {} THEN NotFound ELSE SetMin(hits)

\* the value checkOtp returns when nothing raises
checkOtp(calc, anOtpVal, window, otime, oldtime) ==
    ReplayRule(ScanFirstMatch(calc, anOtpVal, otime, window), oldtime)

\* computing or comparing a candidate OTP raises in the loop: the fault shows
\* at the first scanned slice, if the loop scans any
LoopRaises(fault, otime, window) == fault /\ ScanRange(otime, window) # {}

\* zerome(key), zerome(pin): reached after the loop, for a key and pin that
\* were decrypted from the secret objects
ScrubsSecrets(secretObject, raisedInLoop) == secretObject /\ ~raisedInLoop

(***************************************************************************)
(* SmsTokenClass: values                                                   *)
(***************************************************************************)
\* CHALLENGE_SESSION.ENROLLMENT
ENROLLMENT == "enrollment"
\* values of options.get("session"): absent, or the enrollment session
Sessions == {"none", ENROLLMENT}

\* the OTP of counter c, as get_otp()[2] computes it for token.count = c
HotpValue(c) == <<"otp", c>>
\* a value that is the OTP of no counter
WrongOtp == <<"wrong", 0>>
Counters == 0..MaxCount
SubmittedOtps == {HotpValue(c) : c \in Counters} \cup {WrongOtp}
CountWindows == 0..MaxCountWindow

\* PINs and passwords are strings over a two-letter alphabet
PinChars == {"p", "q"}
Pins == {<<"p", "q">>}
Passwords == UNION {[1..n -> PinChars] : n \in 0..3}

\* a transaction id supplied by the caller, or none
GivenTids == {NoneVal, <<"given">>}
\* Challenge.__init__: the transaction id generated when none is supplied
GeneratedTid(id) == <<"tx", id>>

\* what the delivery path does in one _send_sms call: the channel accepts the
\* message, refuses it (returns false), raises, or the call raises before it
\* reaches the channel (provider loading, configuration, message rendering)
Deliveries == {"sent", "refused", "raise_channel", "raise_before"}
\* the outcomes open to a call: those of a send if it attempts one
DeliveryChoices(attempted) == IF attempted THEN Deliveries ELSE {"none"}

\* whether the options of a call carry "smstoken_post_check" on entry; only a
\* call that reaches _send_sms reads it
PostCheckChoices(delivery) == IF delivery = "none" THEN {FALSE} ELSE BOOLEAN

\* return_message of create_challenge
ChallengeText == "Enter the OTP from the SMS:"
NotSentText == "The PIN was correct, but the SMS could not be sent!"

(***************************************************************************)
(* SmsTokenClass: the token primitives it inherits                         *)
(***************************************************************************)
\* TokenClass.check_pin: the given string against the token's PIN
check_pin(passw, tokenpin) == passw = tokenpin

\* TokenClass.inc_otp_counter(counter): the stored counter becomes counter + 1
inc_otp_counter(counter) == counter + 1

\* the shared HOTP primitive: the first counter of counter..counter+window
\* whose OTP is the submitted value, else -1
HmacCheckOtp(anOtpVal, counter, window) ==
    LET hits == {c \in counter..(counter + window) :
                    SafeCompare(anOtpVal, HotpValue(c))}
    IN  IF hits = {} THEN NotFound ELSE SetMin(hits)

\* HotpTokenClass.check_otp: the HOTP check from the stored counter; on a
\* match the stored counter advances to the matched value + 1
HotpCheckOtp(anOtpVal, cnt, window) ==
    LET res == HmacCheckOtp(anOtpVal, cnt, window)
    IN  [ret |-> res,
         count |-> IF res >= 0 THEN inc_otp_counter(res) ELSE cnt]

\* Challenge(serial, transaction_id, challenge, data, session, validitytime):
\* the row persisted by db_challenge.save(), identified by its row id
ChallengeRow(id, data, session) == [id |-> id, data |-> data, session |-> session]

\* db_challenge.transaction_id: the id supplied, or a generated one
RowTransactionId(id, transactionid) ==
    IF transactionid = NoneVal THEN GeneratedTid(id) ELSE transactionid

(***************************************************************************)
(* SmsTokenClass._send_sms                                                 *)
(***************************************************************************)
\* the channel operation _send_sms chooses
ChannelOp(postCheck) ==
    IF postCheck THEN "submit_post_check" ELSE "submit_message"

\* one _send_sms call with the stored counter cnt: the channel operations it
\* invokes (with the OTP in the message), whether it raises, and its result
SendSms(cnt, postCheck, delivery) ==
    [raised |-> delivery \in {"raise_channel", "raise_before"},
     ok |-> delivery = "sent",
     ops |-> IF delivery = "raise_before"
             THEN <<>>
             ELSE <<[op |-> ChannelOp(postCheck), otp |-> HotpValue(cnt)]>>]

(***************************************************************************)
(* SmsTokenClass.is_challenge_request                                      *)
(***************************************************************************)
\* s without its last n characters
DropTail(s, n) == SubSeq(s, 1, Len(s) - n)

\* mutation of is_challenge_request: a trailing character is split off first
IsChallengeRequestSplitsOtp(passw, tokenpin) ==
    check_pin(passw, tokenpin)
    \/ (Len(passw) > 0 /\ check_pin(DropTail(passw, 1), tokenpin))

\* return self.check_pin(passw, user=user, options=options)
is_challenge_request(passw, tokenpin) == check_pin(passw, tokenpin)

(***************************************************************************)
(* SmsTokenClass.create_challenge                                          *)
(***************************************************************************)
\* mutation of ShouldDeliver: the session tag is not looked at
ShouldDeliverAlways(session) == TRUE

\* if options.get("session") != CHALLENGE_SESSION.ENROLLMENT
ShouldDeliver(session) == session # ENROLLMENT

\* mutation of DeliveryFailure: the failure is never raised
DeliveryFailureAlwaysSoft(exception) ==
    [raised |-> FALSE, message |-> NotSentText]

\* the except branch: raise only if options["exception"] is true
DeliveryFailure(exception) == [raised |-> exception, message |-> NotSentText]

\* mutation of Proceeds: the token's active flag is not looked at
ProceedsAlways(isactive) == TRUE

\* if self.is_active() is True
Proceeds(isactive) == isactive

\* the effects and the result of one create_challenge call
create_challenge(cnt, isactive, id, transactionid, session, exception, concurrent, postcheck, delivery) ==
    LET deliver == ShouldDeliver(session)
        cnt1 == IF deliver THEN inc_otp_counter(cnt) ELSE cnt
        sms == SendSms(cnt1, postcheck, delivery)
        failed == deliver /\ sms.raised
        data == IF deliver /\ concurrent THEN HotpValue(cnt1) ELSE NoneVal
        row == ChallengeRow(id, data, session)
        base == [count |-> cnt, raised |-> FALSE, success |-> FALSE,
                 message |-> ChallengeText, tidOut |-> transactionid,
                 replyState |-> transactionid, rows |-> {},
                 attempts |-> 0, sends |-> <<>>]
    IN  IF ~Proceeds(isactive) THEN base
        ELSE IF failed
        THEN [base EXCEPT !.count = cnt1,
                          !.raised = DeliveryFailure(exception).raised,
                          !.message = DeliveryFailure(exception).message,
                          !.attempts = 1,
                          !.sends = sms.ops]
        ELSE [base EXCEPT !.count = cnt1,
                          !.success = deliver /\ sms.ok,
                          !.tidOut = RowTransactionId(id, transactionid),
                          !.rows = {row},
                          !.attempts = IF deliver THEN 1 ELSE 0,
                          !.sends = IF deliver THEN sms.ops ELSE <<>>]

(***************************************************************************)
(* SmsTokenClass.check_otp                                                 *)
(***************************************************************************)
\* the value check_otp gives a match against the saved challenge data
SavedChallengeMatch == 1

\* mutation of CheckOtpRet: in concurrent-challenge mode a miss is turned into
\* a match without comparing the saved data
CheckOtpRetNoCompare(anOtpVal, cnt, window, data, concurrent) ==
    LET hotp == HotpCheckOtp(anOtpVal, cnt, window)
    IN  IF hotp.ret < 0 /\ concurrent THEN SavedChallengeMatch ELSE hotp.ret

\* mutation of CheckOtpRet: the saved data is compared whatever the mode
CheckOtpRetAnyMode(anOtpVal, cnt, window, data, concurrent) ==
    LET hotp == HotpCheckOtp(anOtpVal, cnt, window)
    IN  IF hotp.ret < 0 /\ SafeCompare(data, anOtpVal)
        THEN SavedChallengeMatch
        ELSE hotp.ret

\* ret after the HOTP check and the saved-challenge comparison
CheckOtpRet(anOtpVal, cnt, window, data, concurrent) ==
    LET hotp == HotpCheckOtp(anOtpVal, cnt, window)
    IN  IF hotp.ret < 0 /\ concurrent /\ SafeCompare(data, anOtpVal)
        THEN SavedChallengeMatch
        ELSE hotp.ret

\* "if ret >= 0": the call goes on to send a message
Matches(anOtpVal, cnt, window, data, concurrent) ==
    CheckOtpRet(anOtpVal, cnt, window, data, concurrent) >= 0

\* options["smstoken_post_check"] when check_otp calls _send_sms: the success
\* branch without auto-resend sets it, the auto-resend branch leaves what the
\* options held on entry
PostCheckOption(autosms, postcheck) == IF autosms THEN postcheck ELSE TRUE

\* the effects and the result of one check_otp call; data is options["data"],
\* postcheck is whether options["smstoken_post_check"] is set on entry
check_otp(anOtpVal, cnt, window, data, concurrent, autosms, postcheck, delivery) ==
    LET hotp == HotpCheckOtp(anOtpVal, cnt, window)
        ret == CheckOtpRet(anOtpVal, cnt, window, data, concurrent)
        cnt2 == IF ret >= 0 /\ autosms THEN inc_otp_counter(ret) ELSE hotp.count
        sms == SendSms(cnt2, PostCheckOption(autosms, postcheck), delivery)
    IN  IF ret >= 0
        THEN [ret |-> ret, count |-> cnt2, raised |-> sms.raised,
              attempts |-> 1, sends |-> sms.ops]
        ELSE [ret |-> ret, count |-> hotp.count, raised |-> FALSE,
              attempts |-> 0, sends |-> <<>>]

(***************************************************************************)
(* Initial states                                                          *)
(***************************************************************************)
MotpIdle == [pc |-> "idle"]

\* no challenge is followed through time, no federation handler runs and no
\* machine application is called
VChalIdle == [pc |-> "off"]
FedIdle == [pc |-> "off"]
AppIdle == [pc |-> "off"]
SendIdle == [pc |-> "off"]
WorkersIdle == [pc |-> "off"]

\* no SmsTokenClass call has been made yet
CallNone ==
    [op |-> "none", via |-> "none", passw |-> <<>>, anOtpVal |-> NoneVal,
     data |-> NoneVal, window |-> 0, session |-> "none",
     transactionid |-> NoneVal, exception |-> FALSE, concurrent |-> FALSE,
     autosms |-> FALSE, postcheck |-> FALSE, delivery |-> "none",
     raised |-> FALSE,
     ret |-> NotFound, result |-> FALSE, success |-> FALSE,
     message |-> "none", tidOut |-> NoneVal, replyState |-> NoneVal,
     rows |-> {}, attempts |-> 0, sends |-> <<>>, countBefore |-> 0,
     wasActive |-> FALSE, saved |-> FALSE, replay |-> FALSE,
     replaySaved |-> FALSE]

\* an mTimeOtp object with its key material and oldtime, and the arguments of
\* the call to come
MotpReady(hitsets, secretObjects, faults) ==
    \E hits \in hitsets, v \in MotpSubmitted, w \in Windows, t \in Times,
       o \in OldTimes, secretObject \in secretObjects, fault \in faults :
          motp = [pc |-> "ready",
                  calc |-> [i \in Slices |->
                              IF i \in hits THEN <<"d", "x">> ELSE <<"d", "y">>],
                  anOtpVal |-> v, window |-> w, otime |-> t, oldtime |-> o,
                  secretObject |-> secretObject, fault |-> fault,
                  found |-> NotFound, res |-> NotFound, raised |-> FALSE,
                  scrubbed |-> FALSE]

\* the key and the pin are given directly and nothing fails in the loop
InitMotp ==
    /\ tokentype = "motp"
    /\ MotpReady({h \in SUBSET Slices : Cardinality(h) <= MaxHits}, {FALSE},
                 {FALSE})
    /\ pin = <<>>
    /\ active = FALSE
    /\ count = 0
    /\ challenges = {}
    /\ created = 0
    /\ accepted = {}
    /\ call = CallNone
    /\ vchal = VChalIdle
    /\ fed = FedIdle
    /\ app = AppIdle
    /\ send = SendIdle
    /\ workers = WorkersIdle

\* an SMS token: enrolled with a PIN, active or not, no challenge yet
InitSms ==
    /\ tokentype = "sms"
    /\ motp = MotpIdle
    /\ pin \in Pins
    /\ active \in BOOLEAN
    /\ count = 0
    /\ challenges = {}
    /\ created = 0
    /\ accepted = {}
    /\ call = CallNone
    /\ vchal = VChalIdle
    /\ fed = FedIdle
    /\ app = AppIdle
    /\ send = SendIdle
    /\ workers = WorkersIdle

(***************************************************************************)
(* Actions                                                                 *)
(***************************************************************************)
\* one call of mTimeOtp.checkOtp on the prepared object and arguments
MotpCheckOtp ==
    /\ tokentype = "motp"
    /\ motp.pc = "ready"
    /\ LET raises == LoopRaises(motp.fault, motp.otime, motp.window)
       IN  motp' = [motp EXCEPT
                      !.pc = "done",
                      !.raised = raises,
                      !.scrubbed = ScrubsSecrets(motp.secretObject, raises),
                      !.found = IF raises THEN NotFound
                                ELSE ScanFirstMatch(motp.calc, motp.anOtpVal,
                                                    motp.otime, motp.window),
                      !.res = IF raises THEN NotFound
                              ELSE checkOtp(motp.calc, motp.anOtpVal,
                                            motp.window, motp.otime,
                                            motp.oldtime)]
    /\ UNCHANGED extvars
    /\ UNCHANGED <<tokentype, smsvars>>

\* one call of SmsTokenClass.is_challenge_request
IsChallengeRequest ==
    /\ tokentype = "sms"
    /\ call.op = "none"
    /\ \E passw \in Passwords :
          call' = [CallNone EXCEPT
                     !.op = "is_challenge_request",
                     !.passw = passw,
                     !.result = is_challenge_request(passw, pin),
                     !.countBefore = count,
                     !.wasActive = active]
    /\ UNCHANGED extvars
    /\ UNCHANGED <<tokentype, motp, pin, active, count, challenges, created,
                   accepted>>

\* one call of SmsTokenClass.create_challenge
CreateChallenge ==
    /\ tokentype = "sms"
    /\ call.op = "none"
    /\ count < MaxCount
    /\ \E transactionid \in GivenTids, session \in Sessions,
          exception \in BOOLEAN, concurrent \in BOOLEAN :
       \E delivery \in DeliveryChoices(active /\ ShouldDeliver(session)) :
       \E postcheck \in PostCheckChoices(delivery) :
          LET r == create_challenge(count, active, created, transactionid,
                                    session, exception, concurrent, postcheck,
                                    delivery)
          IN  /\ created + Cardinality(r.rows) <= MaxChallenges
              /\ count' = r.count
              /\ challenges' = challenges \cup r.rows
              /\ created' = created + Cardinality(r.rows)
              /\ call' = [CallNone EXCEPT
                            !.op = "create_challenge",
                            !.session = session,
                            !.transactionid = transactionid,
                            !.exception = exception,
                            !.concurrent = concurrent,
                            !.postcheck = postcheck,
                            !.delivery = delivery,
                            !.raised = r.raised,
                            !.success = r.success,
                            !.message = r.message,
                            !.tidOut = r.tidOut,
                            !.replyState = r.replyState,
                            !.rows = r.rows,
                            !.attempts = r.attempts,
                            !.sends = r.sends,
                            !.countBefore = count,
                            !.wasActive = active]
    /\ UNCHANGED extvars
    /\ UNCHANGED <<tokentype, motp, pin, active, accepted>>

\* the record a check_otp call leaves in `call`
CheckOtpCall(via, anOtpVal, window, data, concurrent, autosms, postcheck, delivery, r) ==
    [CallNone EXCEPT
       !.op = "check_otp",
       !.via = via,
       !.anOtpVal = anOtpVal,
       !.window = window,
       !.data = data,
       !.concurrent = concurrent,
       !.autosms = autosms,
       !.postcheck = postcheck,
       !.delivery = delivery,
       !.raised = r.raised,
       !.ret = r.ret,
       !.attempts = r.attempts,
       !.sends = r.sends,
       !.countBefore = count,
       !.wasActive = active,
       !.saved = r.ret >= 0 /\ HotpCheckOtp(anOtpVal, count, window).ret < 0,
       !.replay = \E a \in accepted : a.otp = anOtpVal,
       !.replaySaved = \E a \in accepted : a.otp = anOtpVal /\ a.saved]

\* the entry `accepted` gets for a verification that succeeded
Acceptance(anOtpVal, cnt, window) ==
    [otp |-> anOtpVal, saved |-> HotpCheckOtp(anOtpVal, cnt, window).ret < 0]

\* a response to an open challenge: the caller hands the challenge's data to
\* check_otp in the options and consumes the challenge on success
CheckChallengeResponse ==
    /\ tokentype = "sms"
    /\ call.op = "none"
    /\ \E ch \in challenges, anOtpVal \in SubmittedOtps,
          window \in CountWindows, concurrent \in BOOLEAN,
          autosms \in BOOLEAN :
       \E delivery \in DeliveryChoices(
              Matches(anOtpVal, count, window, ch.data, concurrent)) :
       \E postcheck \in PostCheckChoices(delivery) :
          LET r == check_otp(anOtpVal, count, window, ch.data, concurrent,
                             autosms, postcheck, delivery)
              verified == r.ret >= 0 /\ ~r.raised
          IN  /\ r.count <= MaxCount
              /\ count' = r.count
              /\ challenges' = IF verified THEN challenges \ {ch}
                               ELSE challenges
              /\ accepted' = IF verified
                             THEN accepted \cup
                                  {Acceptance(anOtpVal, count, window)}
                             ELSE accepted
              /\ call' = CheckOtpCall("challenge", anOtpVal, window, ch.data,
                                      concurrent, autosms, postcheck, delivery,
                                      r)
    /\ UNCHANGED extvars
    /\ UNCHANGED <<tokentype, motp, pin, active, created>>

\* a direct check_otp call (PIN + OTP in one request): the options carry no
\* challenge data
Authenticate ==
    /\ tokentype = "sms"
    /\ call.op = "none"
    /\ \E anOtpVal \in SubmittedOtps, window \in CountWindows,
          concurrent \in BOOLEAN, autosms \in BOOLEAN :
       \E delivery \in DeliveryChoices(
              Matches(anOtpVal, count, window, NoneVal, concurrent)) :
       \E postcheck \in PostCheckChoices(delivery) :
          LET r == check_otp(anOtpVal, count, window, NoneVal, concurrent,
                             autosms, postcheck, delivery)
              verified == r.ret >= 0 /\ ~r.raised
          IN  /\ r.count <= MaxCount
              /\ count' = r.count
              /\ accepted' = IF verified
                             THEN accepted \cup
                                  {Acceptance(anOtpVal, count, window)}
                             ELSE accepted
              /\ call' = CheckOtpCall("direct", anOtpVal, window, NoneVal,
                                      concurrent, autosms, postcheck, delivery,
                                      r)
    /\ UNCHANGED extvars
    /\ UNCHANGED <<tokentype, motp, pin, active, challenges, created>>

\* the request that made the last call is answered; the token object is idle
\* until the next request
Return ==
    /\ tokentype = "sms"
    /\ call.op # "none"
    /\ call' = CallNone
    /\ UNCHANGED extvars
    /\ UNCHANGED <<tokentype, motp, pin, active, count, challenges, created,
                   accepted>>

(***************************************************************************)
(* Specifications                                                          *)
(***************************************************************************)
NextMotp == MotpCheckOtp

NextSms ==
    \/ IsChallengeRequest
    \/ CreateChallenge
    \/ CheckChallengeResponse
    \/ Authenticate
    \/ Return

\* the mTimeOtp object alone
SpecMotp == InitMotp /\ [][NextMotp]_vars

\* the SMS token alone
Spec == InitSms /\ [][NextSms]_vars

\* a token of either class
InitVerify == InitMotp \/ InitSms

NextVerify == NextMotp \/ NextSms

SpecVerify == InitVerify /\ [][NextVerify]_vars

(***************************************************************************)
(* Claims about mTimeOtp.checkOtp                                          *)
(***************************************************************************)
\* the slices of the whole model range whose digest is the submitted value
MotpMatching == {i \in Slices : motp.calc[i] = motp.anOtpVal}

\* C1: checkOtp never accepts a replay: when the slice at which the submitted
\* OTP matches is at or below oldtime the result is -1, and every result other
\* than -1 is strictly greater than oldtime.
C1_NoReplayAccepted ==
    motp.pc = "done" =>
        /\ motp.res # NotFound => motp.res > motp.oldtime
        /\ LET scanned == MotpMatching \cap ScanRange(motp.otime, motp.window)
           IN  (scanned # {} /\ SetMin(scanned) <= motp.oldtime)
                   => motp.res = NotFound

\* C1 witness: a scanned slice matches, it is not above oldtime, and the call
\* returned -1.
C1_Witness ==
    /\ motp.pc = "done"
    /\ MotpMatching \cap ScanRange(motp.otime, motp.window) # {}
    /\ SetMin(MotpMatching \cap ScanRange(motp.otime, motp.window)) = motp.oldtime
    /\ motp.oldtime > 0
    /\ motp.res = NotFound

\* the distance of slice s from the base time slice t
SliceDistance(s, t) == IF s >= t THEN s - t ELSE t - s

\* C2: with oldtime below every slice, an OTP whose only matching slice is
\* exactly `window` slices from the base slice (either side) is found, and one
\* whose only matching slice is `window + 1` slices away gives -1.
C2_WindowEdges ==
    (motp.pc = "done" /\ \A i \in Slices : motp.oldtime < i) =>
        \A s \in Slices :
            MotpMatching = {s} =>
                /\ SliceDistance(s, motp.otime) = motp.window => motp.res = s
                /\ SliceDistance(s, motp.otime) = motp.window + 1
                       => motp.res = NotFound

(***************************************************************************)
(* Claims about SmsTokenClass                                              *)
(***************************************************************************)
\* the last call was check_otp / create_challenge
IsCheckOtp == call.op = "check_otp"
IsCreateChallenge == call.op = "create_challenge"

\* the delivery of the last call raised
DeliveryRaised == call.delivery \in {"raise_channel", "raise_before"}

\* the counters of the window of the last check_otp whose OTP was submitted
WindowMatches ==
    {m \in call.countBefore..(call.countBefore + call.window) :
        call.anOtpVal = HotpValue(m)}

\* C3: check_otp with the valid OTP of a counter m in c..c+W succeeds and the
\* stored counter becomes m+1; every later check_otp with an OTP value that was
\* accepted before fails, in every configuration.
C3_AdvanceAndNoReplay ==
    IsCheckOtp =>
        /\ \A m \in WindowMatches : call.ret >= 0 /\ count = m + 1
        /\ call.replay => call.ret < 0

\* C4: the stored OTP counter never decreases.
C4_CounterNeverDecreases == [][count' >= count]_vars

\* C5: create_challenge on an active token outside an enrollment session whose
\* delivery raises still persists a challenge record.
C5_RowPersistedOnDeliveryFailure ==
    (IsCreateChallenge /\ call.wasActive /\ call.session # ENROLLMENT
        /\ DeliveryRaised)
        => (call.rows # {} /\ call.rows \subseteq challenges)

\* C6: when delivery raises inside create_challenge, the call raises if the
\* caller's `exception` option is true; otherwise it does not raise and
\* returns success = false with the "PIN correct, SMS not sent" message.
C6_FailureModeByExceptionOption ==
    (IsCreateChallenge /\ call.wasActive /\ call.session # ENROLLMENT
        /\ DeliveryRaised)
        => IF call.exception
           THEN call.raised
           ELSE ~call.raised /\ ~call.success /\ call.message = NotSentText

\* C6 witness: delivery raised at the channel, the caller did not ask for an
\* error, and the call returned the soft message.
C6_Witness ==
    /\ IsCreateChallenge
    /\ call.delivery = "raise_channel"
    /\ ~call.exception
    /\ ~call.raised
    /\ call.message = NotSentText

\* C7: on an active token, create_challenge with the enrollment session tag
\* persists a challenge record, calls no channel operation and leaves the OTP
\* counter alone; with any other session tag it attempts exactly one SMS send.
C7_DeliveryIffNotEnrollment ==
    (IsCreateChallenge /\ call.wasActive) =>
        IF call.session = ENROLLMENT
        THEN /\ call.rows # {}
             /\ call.rows \subseteq challenges
             /\ call.attempts = 0
             /\ call.sends = <<>>
             /\ count = call.countBefore
        ELSE /\ call.attempts = 1
             /\ Len(call.sends) <= 1

\* C7 witness: an enrollment-session challenge was recorded without a send.
C7_Witness ==
    /\ IsCreateChallenge
    /\ call.wasActive
    /\ call.session = ENROLLMENT
    /\ call.rows # {}
    /\ call.sends = <<>>

\* C8: a value that was accepted through the saved challenge data (the HOTP
\* check missed) is not accepted a second time.
C8_SavedMatchOnlyOnce ==
    (IsCheckOtp /\ call.replaySaved) => call.ret < 0

\* C11: a check_otp that succeeds dispatches exactly one message: with the
\* auto-resend policy it is submit_message and no post-check, without it it is
\* submit_post_check and no submit_message.
C11_OneMessagePerSuccess ==
    (IsCheckOtp /\ call.ret >= 0 /\ ~call.raised) =>
        /\ Len(call.sends) = 1
        /\ call.sends[1].op =
              IF call.autosms THEN "submit_message" ELSE "submit_post_check"

\* the last check_otp was handed a value that matches nothing
MatchesNothing ==
    /\ WindowMatches = {}
    /\ ~(call.concurrent /\ call.data = call.anOtpVal)

IsPrefix(p, s) == Len(p) <= Len(s) /\ SubSeq(s, 1, Len(p)) = p

\* C10 as stated: is_challenge_request is true iff the PIN portion of the
\* password matches the PIN, whatever follows it.
C10_PinPortionIgnoringOtp ==
    call.op = "is_challenge_request"
        => (call.result <=> IsPrefix(pin, call.passw))

\* C10 amended: is_challenge_request is true iff the whole password is the
\* token's PIN.
C10_WholePasswordIsPin ==
    call.op = "is_challenge_request" => (call.result <=> call.passw = pin)

\* C10 witness: the correct PIN followed by one more character was not taken
\* as a challenge request.
C10_Witness ==
    /\ call.op = "is_challenge_request"
    /\ Len(call.passw) = Len(pin) + 1
    /\ IsPrefix(pin, call.passw)
    /\ ~call.result

(***************************************************************************)
(* Challenge validity: SmsTokenClass._get_sms_timeout, the validity        *)
(* create_challenge gives the Challenge row, and the row's matching window *)
(***************************************************************************)
\* last second of the clock
MaxClock == 302
\* create_challenge is called at second 0..MaxCreateTime
MaxCreateTime == 1

\* the default of "sms.providerTimeout": 5 * 60
DefaultSmsTimeout == 300

\* values of the configuration entry "sms.providerTimeout": not set, not an
\* integer, or an integer number of seconds
ShortSmsTimeout == 2
SmsTimeoutConfigs ==
    {NoneVal, <<"text", 0>>, <<"int", ShortSmsTimeout>>,
     <<"int", DefaultSmsTimeout>>}

\* mutation of get_sms_timeout: an unset or unreadable entry gives no validity
GetSmsTimeoutNoDefault(config) == IF config[1] = "int" THEN config[2] ELSE 0

\* _get_sms_timeout: int(get_from_config("sms.providerTimeout", 5 * 60)), and
\* 5 * 60 if that raises
get_sms_timeout(config) ==
    IF config[1] = "int" THEN config[2] ELSE DefaultSmsTimeout

\* Challenge.is_valid: the row is matchable while now <= created_at + validity
ChallengeIsValid(now, created_at, validitytime) ==
    now >= created_at /\ now <= created_at + validitytime

\* the clock runs, the configuration is fixed, no challenge exists yet
InitValidity ==
    /\ tokentype = "sms"
    /\ motp = MotpIdle
    /\ pin \in Pins
    /\ active = TRUE
    /\ count = 0
    /\ challenges = {}
    /\ created = 0
    /\ accepted = {}
    /\ call = CallNone
    /\ \E config \in SmsTimeoutConfigs :
          vchal = [pc |-> "none", config |-> config, now |-> 0,
                   created_at |-> 0, validitytime |-> 0, matched |-> FALSE]
    /\ fed = FedIdle
    /\ app = AppIdle
    /\ send = SendIdle
    /\ workers = WorkersIdle

\* a second passes
Tick ==
    /\ vchal.pc \in {"none", "open"}
    /\ vchal.now < MaxClock
    /\ vchal' = [vchal EXCEPT !.now = vchal.now + 1]
    /\ UNCHANGED <<tokentype, motp, smsvars, fed, app, send, workers>>

\* create_challenge: validity = self._get_sms_timeout(), and the Challenge
\* row is created now with validitytime = validity
CreateTimedChallenge ==
    /\ vchal.pc = "none"
    /\ vchal.now <= MaxCreateTime
    /\ vchal' = [vchal EXCEPT !.pc = "open",
                              !.created_at = vchal.now,
                              !.validitytime = get_sms_timeout(vchal.config)]
    /\ UNCHANGED <<tokentype, motp, smsvars, fed, app, send, workers>>

\* a response arrives: the challenge is matched only if it is still valid
RespondToChallenge ==
    /\ vchal.pc = "open"
    /\ vchal' = [vchal EXCEPT
                   !.pc = "answered",
                   !.matched = ChallengeIsValid(vchal.now, vchal.created_at,
                                                vchal.validitytime)]
    /\ UNCHANGED <<tokentype, motp, smsvars, fed, app, send, workers>>

\* the response is answered; the challenge stays open for the next one
ResponseAnswered ==
    /\ vchal.pc = "answered"
    /\ vchal' = [vchal EXCEPT !.pc = "open", !.matched = FALSE]
    /\ UNCHANGED <<tokentype, motp, smsvars, fed, app, send, workers>>

NextValidity ==
    \/ Tick
    \/ CreateTimedChallenge
    \/ RespondToChallenge
    \/ ResponseAnswered

\* one challenge of an SMS token followed through time
SpecValidity == InitValidity /\ [][NextValidity]_vars

\* C12: a challenge created with a validity of 300 seconds is matched by a
\* response 299 s after its creation and not matched 301 s after it; a
\* challenge is matched only while now <= created_at + validity, and without
\* a configured timeout the validity is 300 seconds.
C12_MatchableWithinValidity ==
    vchal.pc = "answered" =>
        /\ vchal.config \in {NoneVal, <<"int", 300>>}
              => /\ vchal.validitytime = 300
                 /\ vchal.now = vchal.created_at + 299 => vchal.matched
                 /\ vchal.now = vchal.created_at + 301 => ~vchal.matched
        /\ vchal.matched => vchal.now <= vchal.created_at + vchal.validitytime

\* C12 witness: a challenge created at second 1 with the default timeout was
\* matched at second 300, 299 s later.
C12_Witness ==
    /\ vchal.pc = "answered"
    /\ vchal.config = NoneVal
    /\ vchal.created_at = 1
    /\ vchal.now = 300
    /\ vchal.matched

(***************************************************************************)
(* FederationEventHandler.do                                               *)
(***************************************************************************)
\* a dict is a set of <<key, value>> pairs with one pair per key
Has(d, k) == \E e \in d : e[1] = k
Get(d, k) == (CHOOSE e \in d : e[1] = k)[2]
\* d[k] = v
Put(d, k, v) == {e \in d : e[1] # k} \cup {<<k, v>>}
\* None where a dict is expected
NoneDict == {<<"None">>}

FORWARD == "forward"
FedActions == {FORWARD, "log"}
\* request.method, in the spelling the client used
Methods == {"GET", "POST", "DELETE", "PATCH", "get"}
\* method.upper()
Upper(method) == IF method = "get" THEN "GET" ELSE method

\* request.all_data of the inbound request
InboundPayloads ==
    {{<<"user", "alice">>} \cup extra :
        extra \in SUBSET {<<"realm", "home">>, <<"client", "192.0.2.7">>}}
\* g.client_ip
ClientIp == "198.51.100.4"
\* request.headers.get("Authorization"): "" stands for None, no such header
AuthorizationHeaders == {"", "Bearer t"}
\* handler options "realm" and "resolver": "" stands for empty and for not set
RealmOptions == {"", "childrealm"}
ResolverOptions == {"", "childresolver"}

\* url = pi_server.config.url + request.path
\* (the child server's URL "https://child", the path "/validate/check")
Url == "https://child/validate/check"

\* a JSON detail entry: absent, null, or an object with its entries
DetailAbsent == [kind |-> "absent", entries |-> {}]
DetailNull == [kind |-> "null", entries |-> {}]
DetailObject(entries) == [kind |-> "object", entries |-> entries]
\* JSON bodies a remote server answers with
RemoteBodies ==
    {[result |-> "remote", detail |-> d] :
        d \in {DetailAbsent, DetailNull,
               DetailObject({<<"serial", "S1">>}),
               DetailObject({<<"serial", "S1">>, <<"origin", "elsewhere">>})}}
RemoteStatus == {200, 401}
\* what the relay call does: it raises (timeout, connection error), or the
\* remote answers with a text that is not JSON, or with a JSON body
RemoteReplies ==
    {[kind |-> k, body |-> [result |-> "", detail |-> DetailAbsent],
      status_code |-> 0] : k \in {"timeout", "connection_error"}}
    \cup {[kind |-> "not_json",
           body |-> [result |-> "", detail |-> DetailAbsent],
           status_code |-> c] : c \in RemoteStatus}
    \cup {[kind |-> "json", body |-> b, status_code |-> c] :
            b \in RemoteBodies, c \in RemoteStatus}
\* the reply of a call that is never made
NoReply ==
    [kind |-> "none", body |-> [result |-> "", detail |-> DetailAbsent],
     status_code |-> 0]
ReplyChoices(sent) == IF sent THEN RemoteReplies ELSE {NoReply}

\* options["response"] before the handler runs
OriginalResponse ==
    [body |-> [result |-> "local", detail |-> DetailAbsent],
     status_code |-> 200, mimetype |-> "application/json"]

\* mutation of WithClientIp: the client IP is always forwarded
WithClientIpAlways(data, forward_client_ip) == Put(data, "client", ClientIp)

\* if is_true(handler_options.get("forward_client_ip", False))
WithClientIp(data, forward_client_ip) ==
    IF forward_client_ip THEN Put(data, "client", ClientIp) ELSE data

\* if handler_options.get(key): data[key] = handler_options.get(key)
WithOverride(data, key, value) ==
    IF value # "" THEN Put(data, key, value) ELSE data

\* the payload after the three conditional assignments
ForwardData(all_data, hopts) ==
    WithOverride(
        WithOverride(WithClientIp(all_data, hopts.forward_client_ip),
                     "realm", hopts.realm),
        "resolver", hopts.resolver)

\* headers: the inbound Authorization header if it is to be forwarded
ForwardHeaders(hopts, authorization) ==
    IF hopts.forward_authorization_token
    THEN {<<"Authorization", authorization>>}
    ELSE {}

\* mutation of Requestor: every other method is sent like a POST
RequestorAnyMethod(method) ==
    CASE Upper(method) = "GET" -> "requests.get"
      [] Upper(method) = "DELETE" -> "requests.delete"
      [] OTHER -> "requests.post"

\* the requestor chosen for the method, "None" if there is none
Requestor(method) ==
    CASE Upper(method) = "GET" -> "requests.get"
      [] Upper(method) = "POST" -> "requests.post"
      [] Upper(method) = "DELETE" -> "requests.delete"
      [] OTHER -> "None"

\* the call requestor(url, params=params, data=data, headers=headers)
OutboundRequest(method, data, headers) ==
    [requestor |-> Requestor(method),
     url |-> Url,
     params |-> IF Upper(method) = "GET" THEN data ELSE NoneDict,
     data |-> IF Upper(method) = "GET" THEN NoneDict ELSE data,
     headers |-> headers]
NoRequest ==
    [requestor |-> "None", url |-> "", params |-> NoneDict,
     data |-> NoneDict, headers |-> {}]

\* the reply makes the handler raise: the requestor raises, json.loads raises,
\* or detail["origin"] = url is applied to a detail that is null
ReplyRaises(reply) ==
    \/ reply.kind \in {"timeout", "connection_error", "not_json"}
    \/ reply.kind = "json" /\ reply.body.detail.kind = "null"

\* response_dict after: if "detail" in response_dict: detail["origin"] = url
WithOrigin(body) ==
    IF body.detail.kind = "object"
    THEN [body EXCEPT !.detail.entries = Put(body.detail.entries, "origin", Url)]
    ELSE body

\* one run of do(action, options): request.all_data and options["response"]
\* after it, the request it sent, and whether it raised
do(action, method, all_data, authorization, hopts, reply, response) ==
    LET data == ForwardData(all_data, hopts)
        headers == ForwardHeaders(hopts, authorization)
        sent == Requestor(method) # "None"
    IN  IF action # FORWARD
        THEN [all_data |-> all_data, sent |-> FALSE, request |-> NoRequest,
              raised |-> FALSE, response |-> response]
        ELSE [all_data |-> data,
              sent |-> sent,
              request |-> IF sent THEN OutboundRequest(method, data, headers)
                          ELSE NoRequest,
              raised |-> sent /\ ReplyRaises(reply),
              response |-> IF sent /\ ~ReplyRaises(reply)
                           THEN [body |-> WithOrigin(reply.body),
                                 status_code |-> reply.status_code,
                                 mimetype |-> "application/json"]
                           ELSE response]

HandlerOptions ==
    [forward_client_ip : BOOLEAN, realm : RealmOptions,
     resolver : ResolverOptions, forward_authorization_token : BOOLEAN]

\* an event with its handler definition, before the handler runs
InitFed ==
    /\ tokentype = "none"
    /\ motp = MotpIdle
    /\ pin = <<>>
    /\ active = FALSE
    /\ count = 0
    /\ challenges = {}
    /\ created = 0
    /\ accepted = {}
    /\ call = CallNone
    /\ vchal = VChalIdle
    /\ \E action \in FedActions, method \in Methods,
          all_data \in InboundPayloads, authorization \in AuthorizationHeaders,
          hopts \in HandlerOptions :
          fed = [pc |-> "ready", action |-> action, method |-> method,
                 inbound |-> all_data, all_data |-> all_data,
                 authorization |-> authorization, hopts |-> hopts,
                 reply |-> NoReply, sent |-> FALSE, request |-> NoRequest,
                 raised |-> FALSE, response |-> OriginalResponse]
    /\ app = AppIdle
    /\ send = SendIdle
    /\ workers = WorkersIdle

\* one call of FederationEventHandler.do
FederationDo ==
    /\ fed.pc = "ready"
    /\ \E reply \in ReplyChoices(fed.action = FORWARD
                                   /\ Requestor(fed.method) # "None") :
          LET r == do(fed.action, fed.method, fed.all_data, fed.authorization,
                      fed.hopts, reply, fed.response)
          IN  fed' = [fed EXCEPT !.pc = "done",
                                 !.all_data = r.all_data,
                                 !.reply = reply,
                                 !.sent = r.sent,
                                 !.request = r.request,
                                 !.raised = r.raised,
                                 !.response = r.response]
    /\ UNCHANGED <<tokentype, motp, smsvars, vchal, app, send, workers>>

NextFed == FederationDo

\* the federation event handler alone
SpecFed == InitFed /\ [][NextFed]_vars

\* the handler ran with the forward action
Forwarded == fed.pc = "done" /\ fed.action = FORWARD
\* the payload the request carried, as query parameters or as body
RelayedPayload ==
    IF fed.request.params # NoneDict THEN fed.request.params
    ELSE fed.request.data

\* C13: the forward action relays only GET, POST and DELETE: GET carries the
\* payload as query parameters and no body, POST and DELETE carry it as body;
\* for any other method no request is sent and the response in options is
\* left untouched.
C13_OnlyGetPostDeleteRelayed ==
    Forwarded =>
        /\ fed.sent <=> Upper(fed.method) \in {"GET", "POST", "DELETE"}
        /\ (fed.sent /\ Upper(fed.method) = "GET")
              => /\ fed.request.requestor = "requests.get"
                 /\ fed.request.params # NoneDict
                 /\ fed.request.data = NoneDict
        /\ (fed.sent /\ Upper(fed.method) # "GET")
              => /\ fed.request.requestor =
                       (IF Upper(fed.method) = "POST" THEN "requests.post"
                        ELSE "requests.delete")
                 /\ fed.request.data # NoneDict
                 /\ fed.request.params = NoneDict
        /\ ~fed.sent
              => /\ fed.request = NoRequest
                 /\ ~fed.raised
                 /\ fed.response = OriginalResponse

\* C13 witness: a PATCH request went through the forward action and nothing
\* was sent.
C13_Witness ==
    /\ Forwarded
    /\ fed.method = "PATCH"
    /\ ~fed.sent
    /\ fed.response = OriginalResponse

\* the entry of key k is the same in the dicts a and b
SameEntry(a, b, k) ==
    /\ Has(a, k) <=> Has(b, k)
    /\ Has(a, k) => Get(a, k) = Get(b, k)

\* C14: the relayed payload differs from the inbound payload strictly per the
\* handler options: client is the client IP iff forward_client_ip, realm and
\* resolver are overridden iff the option is set, every other entry is the
\* inbound one; an Authorization header is sent iff
\* forward_authorization_token, and it is the inbound one; no other header.
C14_PayloadAndHeadersPerOptions ==
    (Forwarded /\ fed.sent) =>
        LET out == RelayedPayload
            h == fed.hopts
        IN  /\ IF h.forward_client_ip
               THEN Has(out, "client") /\ Get(out, "client") = ClientIp
               ELSE SameEntry(out, fed.inbound, "client")
            /\ IF h.realm # ""
               THEN Has(out, "realm") /\ Get(out, "realm") = h.realm
               ELSE SameEntry(out, fed.inbound, "realm")
            /\ IF h.resolver # ""
               THEN Has(out, "resolver") /\ Get(out, "resolver") = h.resolver
               ELSE SameEntry(out, fed.inbound, "resolver")
            /\ SameEntry(out, fed.inbound, "user")
            /\ \A e \in out : e[1] \in {"client", "realm", "resolver", "user"}
            /\ fed.request.headers =
                  (IF h.forward_authorization_token
                   THEN {<<"Authorization", fed.authorization>>}
                   ELSE {})
            /\ (~h.forward_client_ip /\ h.realm = "" /\ h.resolver = ""
                  /\ ~h.forward_authorization_token)
                  => (out = fed.inbound /\ fed.request.headers = {})

\* C14 witness: the inbound payload named a client, the client IP was not to
\* be forwarded, the realm was overridden, and the request was sent.
C14_Witness ==
    /\ Forwarded
    /\ fed.sent
    /\ ~fed.hopts.forward_client_ip
    /\ fed.hopts.realm = "childrealm"
    /\ Has(fed.inbound, "client")
    /\ Has(fed.inbound, "realm")
    /\ Get(RelayedPayload, "client") = "192.0.2.7"
    /\ Get(RelayedPayload, "realm") = "childrealm"

\* C15: on a relayed call the response placed in options has the remote
\* status code and the remote JSON body, with an origin field equal to the
\* forwarding URL injected into detail iff the body has a detail entry; a
\* body without detail is relayed unchanged.
C15_RemoteResponseWithOrigin ==
    (Forwarded /\ fed.sent /\ fed.reply.kind = "json") =>
        /\ ~fed.raised
        /\ fed.response.status_code = fed.reply.status_code
        /\ fed.response.body.result = fed.reply.body.result
        /\ IF fed.reply.body.detail.kind = "absent"
           THEN fed.response.body = fed.reply.body
           ELSE <<"origin", Url>> \in fed.response.body.detail.entries

\* C16: after do returns, the inbound request's own payload is what it was
\* before the call.
C16_InboundPayloadUntouched ==
    (fed.pc = "done" /\ ~fed.raised) => fed.all_data = fed.inbound

\* C17: a failure of the relay call (timeout, connection error, a remote body
\* that is not JSON) does not make do raise, and the original response stays
\* in options.
C17_RelayFailureIsSoft ==
    (Forwarded /\ fed.sent
        /\ fed.reply.kind \in {"timeout", "connection_error", "not_json"})
        => (~fed.raised /\ fed.response = OriginalResponse)

(***************************************************************************)
(* Machine applications: get_auth_item and the LUKS handler                *)
(***************************************************************************)
\* most active tokens get_tokens finds for a serial
MaxTokens == 2

\* application_name of the modules of the applications package
RegisteredApplications == {"base", "luks"}
\* application names a caller asks for
ApplicationNames == RegisteredApplications \cup {"ssh"}

\* token types and serials, as strings of characters
TokenTypes ==
    {<<"t", "o", "t", "p">>, <<"T", "O", "T", "P">>, <<"T", "o", "t", "P">>,
     <<"h", "o", "t", "p">>, <<"H", "O", "T", "P">>}
Serials ==
    {<<"U", "B", "O", "M", "1">>, <<"U", "B", "O", "M">>, <<"U", "B", "O">>,
     <<"u", "b", "o", "m", "1">>, <<"T", "O", "T", "P", "1">>}

\* str.lower(), on the letters that occur
LowerChar(c) ==
    CASE c = "T" -> "t"
      [] c = "O" -> "o"
      [] c = "P" -> "p"
      [] c = "H" -> "h"
      [] OTHER -> c
Lower(str) == [i \in 1..Len(str) |-> LowerChar(str[i])]
\* str.startswith(prefix)
StartsWith(str, prefix) ==
    Len(str) >= Len(prefix) /\ SubSeq(str, 1, Len(prefix)) = prefix

\* the challenge argument: None or a hex string
NoChallenge == <<"None", "">>
GivenChallenges == {NoChallenge, <<"hex", "c0ffee">>}
\* hexlify_and_unicode(geturandom(32))
RandomChallenges == {<<"hex", "5eed01">>, <<"hex", "5eed02">>}
RandomChoices(generated) == IF generated THEN RandomChallenges ELSE {NoChallenge}
\* the untruncated OTP a token computes for a challenge
ResponseTo(challenge_hex) == <<"otp", challenge_hex[2]>>

\* mutation of IsSupported: the serial is not looked at
IsSupportedAnySerial(token_type, serial) ==
    Lower(token_type) = <<"t", "o", "t", "p">>

\* token_type.lower() == "totp" and serial.startswith("UBOM")
IsSupported(token_type, serial) ==
    /\ Lower(token_type) = <<"t", "o", "t", "p">>
    /\ StartsWith(serial, <<"U", "B", "O", "M">>)

\* the LUKS handler generates a challenge
GeneratesChallenge(token_type, serial, challenge) ==
    IsSupported(token_type, serial) /\ challenge = NoChallenge

\* luks.MachineApplication.get_authentication_item; ntokens is the number of
\* tokens get_tokens(serial=serial, active=True) returns
luks_get_authentication_item(token_type, serial, challenge, random, ntokens) ==
    LET challenge_hex == IF challenge = NoChallenge THEN random ELSE challenge
        withChallenge == Put({}, "challenge", challenge_hex)
    IN  IF IsSupported(token_type, serial)
        THEN [kind |-> "dict",
              items |-> IF ntokens = 1
                        THEN Put(withChallenge, "response",
                                 ResponseTo(challenge_hex))
                        ELSE withChallenge,
              raised |-> FALSE,
              lookups |-> 1,
              generated |-> IF challenge = NoChallenge THEN 1 ELSE 0]
        ELSE [kind |-> "dict", items |-> {}, raised |-> FALSE,
              lookups |-> 0, generated |-> 0]

\* base.MachineApplication.get_authentication_item: return "nothing"
base_get_authentication_item ==
    [kind |-> "nothing", items |-> {}, raised |-> FALSE, lookups |-> 0,
     generated |-> 0]

\* calling get_authentication_item on None raises
NoneGetAuthenticationItem ==
    [kind |-> "none", items |-> {}, raised |-> TRUE, lookups |-> 0,
     generated |-> 0]

\* get_auth_item: class_dict.get(application).get_authentication_item(...)
get_auth_item(application, token_type, serial, challenge, random, ntokens) ==
    CASE application = "luks" ->
            luks_get_authentication_item(token_type, serial, challenge, random,
                                         ntokens)
      [] application = "base" -> base_get_authentication_item
      [] OTHER -> NoneGetAuthenticationItem

\* the arguments of one get_auth_item call and the tokens in the database
InitApp ==
    /\ tokentype = "none"
    /\ motp = MotpIdle
    /\ pin = <<>>
    /\ active = FALSE
    /\ count = 0
    /\ challenges = {}
    /\ created = 0
    /\ accepted = {}
    /\ call = CallNone
    /\ vchal = VChalIdle
    /\ fed = FedIdle
    /\ \E application \in ApplicationNames, token_type \in TokenTypes,
          serial \in Serials, challenge \in GivenChallenges,
          ntokens \in 0..MaxTokens :
          app = [pc |-> "ready", application |-> application,
                 token_type |-> token_type, serial |-> serial,
                 challenge |-> challenge, ntokens |-> ntokens,
                 kind |-> "none", items |-> {}, raised |-> FALSE,
                 lookups |-> 0, generated |-> 0]
    /\ send = SendIdle
    /\ workers = WorkersIdle

\* one call of get_auth_item
GetAuthItem ==
    /\ app.pc = "ready"
    /\ \E random \in RandomChoices(
              app.application = "luks"
              /\ GeneratesChallenge(app.token_type, app.serial, app.challenge)) :
          LET r == get_auth_item(app.application, app.token_type, app.serial,
                                 app.challenge, random, app.ntokens)
          IN  app' = [app EXCEPT !.pc = "done",
                                 !.kind = r.kind,
                                 !.items = r.items,
                                 !.raised = r.raised,
                                 !.lookups = r.lookups,
                                 !.generated = r.generated]
    /\ UNCHANGED <<tokentype, motp, smsvars, vchal, fed, send, workers>>

NextApp == GetAuthItem

\* the machine application API alone
SpecApp == InitApp /\ [][NextApp]_vars

\* C18: get_auth_item with an application name that is not registered
\* returns an empty result and does not raise.
C18_UnknownApplicationIsSoft ==
    (app.pc = "done" /\ app.application \notin RegisteredApplications)
        => (~app.raised /\ app.kind = "dict" /\ app.items = {})

\* the LUKS handler was called
LuksCalled == app.pc = "done" /\ app.application = "luks"
\* the token type is TOTP in some spelling and the serial starts with UBOM
TotpUbom ==
    /\ app.token_type \in
          {<<"t", "o", "t", "p">>, <<"T", "O", "T", "P">>, <<"T", "o", "t", "P">>}
    /\ Len(app.serial) >= 4
    /\ <<app.serial[1], app.serial[2], app.serial[3], app.serial[4]>> =
          <<"U", "B", "O", "M">>

\* C19: for a token type that is not TOTP or a serial that does not start
\* with "UBOM" the LUKS handler returns an empty result, does not raise,
\* looks up no token and generates no challenge.
C19_UnsupportedIsEmpty ==
    (LuksCalled /\ ~TotpUbom)
        => /\ ~app.raised
           /\ app.kind = "dict"
           /\ app.items = {}
           /\ app.lookups = 0
           /\ app.generated = 0

\* C19 witness: a TOTP token whose serial starts with lower-case "ubom" got
\* an empty result.
C19_Witness ==
    /\ LuksCalled
    /\ app.token_type = <<"T", "O", "T", "P">>
    /\ app.serial = <<"u", "b", "o", "m", "1">>
    /\ app.challenge = NoChallenge
    /\ app.items = {}

\* C20: the LUKS handler returns either an empty result or one with both a
\* challenge and a response, never a challenge without a response.
C20_ChallengeComesWithResponse ==
    (LuksCalled /\ ~app.raised)
        => \/ app.items = {}
           \/ Has(app.items, "challenge") /\ Has(app.items, "response")

(***************************************************************************)
(* Further claims about SmsTokenClass                                      *)
(***************************************************************************)
\* C24: when the HOTP check of check_otp succeeds, check_otp returns the
\* matched counter whether or not the message it then dispatches can be
\* delivered; a channel failure does not make it raise.
C24_SuccessSurvivesChannelFailure ==
    (IsCheckOtp /\ WindowMatches # {})
        => (~call.raised /\ call.ret \in WindowMatches)

\* C25: when the HOTP check returns not-found, check_otp succeeds iff
\* concurrent-challenge mode is on and the submitted value equals the
\* challenge data of the options.
C25_FallbackIffConcurrentAndEqual ==
    (IsCheckOtp /\ WindowMatches = {})
        => (call.ret >= 0
              <=> (call.concurrent /\ call.data # NoneVal
                     /\ call.data = call.anOtpVal))

\* C25 witness: the mode is off, the submitted value equals the challenge
\* data, the HOTP check missed, and the result is negative.
C25_Witness ==
    /\ IsCheckOtp
    /\ WindowMatches = {}
    /\ ~call.concurrent
    /\ call.data # NoneVal
    /\ call.data = call.anOtpVal
    /\ call.ret < 0

\* C26: a successful check_otp under the auto-resend policy leaves a new
\* challenge record for the token.
C26_AutoResendCreatesChallenge ==
    [][(IsCheckOtp' /\ call'.autosms /\ call'.ret >= 0 /\ ~call'.raised)
          => challenges' \ challenges # {}]_vars

\* C29: create_challenge on a token that is not active persists no
\* challenge, calls no channel operation, leaves the OTP counter alone and
\* returns success = false with the transaction id it was given.
C29_InactiveTokenNoEffect ==
    (IsCreateChallenge /\ ~call.wasActive)
        => /\ call.rows = {}
           /\ call.attempts = 0
           /\ call.sends = <<>>
           /\ count = call.countBefore
           /\ ~call.raised
           /\ ~call.success
           /\ call.tidOut = call.transactionid

\* C29 witness: an inactive token was asked for a challenge with a given
\* transaction id and none was recorded.
C29_Witness ==
    /\ IsCreateChallenge
    /\ ~call.wasActive
    /\ call.transactionid # NoneVal
    /\ call.session # ENROLLMENT
    /\ challenges = {}
    /\ call.tidOut = call.transactionid

\* C30: in every return of create_challenge the state attribute of the
\* reply data equals the returned transaction id.
C30_ReplyStateIsTransactionId ==
    (IsCreateChallenge /\ ~call.raised) => call.replyState = call.tidOut

(***************************************************************************)
(* Further claims about mTimeOtp.checkOtp                                  *)
(***************************************************************************)
\* an mTimeOtp object whose key and pin may come from the secret objects, and
\* a loop in which a computation may raise
InitMotpSecret ==
    /\ tokentype = "motp"
    /\ MotpReady({h \in SUBSET Slices : Cardinality(h) <= 1}, BOOLEAN, BOOLEAN)
    /\ pin = <<>>
    /\ active = FALSE
    /\ count = 0
    /\ challenges = {}
    /\ created = 0
    /\ accepted = {}
    /\ call = CallNone
    /\ vchal = VChalIdle
    /\ fed = FedIdle
    /\ app = AppIdle
    /\ send = SendIdle
    /\ workers = WorkersIdle

\* mTimeOtp.checkOtp with decrypted secrets and failures in the loop
SpecMotpSecret == InitMotpSecret /\ [][NextMotp]_vars

\* C23: when key and pin are decrypted from the secret objects, both
\* plaintexts are scrubbed before control leaves checkOtp, on every exit path.
C23_SecretsScrubbedOnEveryExit ==
    (motp.pc = "done" /\ motp.secretObject) => motp.scrubbed

\* the scanned slices whose OTP is the submitted value
ScannedMatches == MotpMatching \cap ScanRange(motp.otime, motp.window)

\* C27: before the replay rule, checkOtp selects the matching scanned slice
\* of smallest index, and none only when no scanned slice matches.
C27_FirstMatchOfScan ==
    (motp.pc = "done" /\ ~motp.raised) =>
        /\ ScannedMatches = {} <=> motp.found = NotFound
        /\ ScannedMatches # {}
              => /\ motp.found \in ScannedMatches
                 /\ \A i \in ScannedMatches : motp.found <= i

\* C27 witness: two scanned slices match and the smaller one was selected.
C27_Witness ==
    /\ motp.pc = "done"
    /\ Cardinality(ScannedMatches) = 2
    /\ motp.found \in ScannedMatches
    /\ \E i \in ScannedMatches : motp.found < i

\* C28 as stated: if a scanned slice above oldtime yields the submitted OTP,
\* checkOtp returns a slice above oldtime, also when a scanned slice at or
\* below oldtime yields the same value.
C28_EveryUnusedSliceAccepted ==
    (motp.pc = "done" /\ ~motp.raised
        /\ \E i \in ScannedMatches : i > motp.oldtime)
        => (motp.res # NotFound /\ motp.res > motp.oldtime)

\* C28 amended: checkOtp returns a slice above oldtime exactly when the first
\* scanned slice that yields the submitted OTP is above oldtime; if a scanned
\* slice at or below oldtime yields it, the result is -1 even when a later
\* scanned slice yields it too.
C28_FirstMatchDecides ==
    (motp.pc = "done" /\ ~motp.raised) =>
        IF ScannedMatches # {} /\ \A i \in ScannedMatches : i > motp.oldtime
        THEN motp.res \in ScannedMatches /\ motp.res > motp.oldtime
        ELSE motp.res = NotFound

\* C28 witness: one matching scanned slice is at or below oldtime, another
\* one is above it, and the call returned -1.
C28_Witness ==
    /\ motp.pc = "done"
    /\ \E i \in ScannedMatches : i <= motp.oldtime
    /\ \E i \in ScannedMatches : i > motp.oldtime
    /\ motp.oldtime > 0
    /\ motp.res = NotFound

(***************************************************************************)
(* SmsTokenClass._send_sms step by step: rendering, gateway, channel       *)
(***************************************************************************)
\* longest message template, in pieces
MaxTemplateLen == 2

\* the pieces of a message template: plain text, the two legacy placeholders,
\* and named tags; "{nickname}" is a tag no caller provides
TemplatePieces ==
    {"text", "<otp>", "<serial>", "{otp}", "{serial}", "{challenge}",
     "{nickname}"}
Templates == UNION {[1..n -> TemplatePieces] : n \in 0..MaxTemplateLen}

\* otp = self.get_otp()[2], serial = self.get_serial(), options["challenge"]
OtpText == "123456"
SerialText == "SMS0001"
ChallengeTagText == ""

\* message.replace("<otp>", otp).replace("<serial>", serial), piece by piece
ReplaceLegacy(piece) ==
    CASE piece = "<otp>" -> OtpText
      [] piece = "<serial>" -> SerialText
      [] OTHER -> piece

\* the named tags of the model with the field name str.format looks up
NamedTags ==
    {<<"{otp}", "otp">>, <<"{serial}", "serial">>,
     <<"{challenge}", "challenge">>, <<"{nickname}", "nickname">>}
IsNamedTag(piece) == Has(NamedTags, piece)

\* the keyword arguments of message.format(otp=otp, **tags)
FormatArguments ==
    {<<"otp", OtpText>>, <<"serial", SerialText>>,
     <<"challenge", ChallengeTagText>>}

\* str.format raises KeyError for a field that is not among its arguments
FormatRaises(message) ==
    \E i \in 1..Len(message) :
        IsNamedTag(message[i]) /\ ~Has(FormatArguments, Get(NamedTags, message[i]))

\* message.format(otp=otp, **tags) when it does not raise
Format(message) ==
    [i \in 1..Len(message) |->
        IF IsNamedTag(message[i])
        THEN Get(FormatArguments, Get(NamedTags, message[i]))
        ELSE message[i]]

\* the message after the two replacements
Replaced(template) == [i \in 1..Len(template) |-> ReplaceLegacy(template[i])]

\* "sms.identifier" of the token and of the system: "" stands for not set
TokenIdentifiers == {"", "tokengw"}
SystemIdentifiers == {"", "systemgw"}

\* mutation of GatewayIdentifier: the system-wide identifier goes first
GatewayIdentifierSystemFirst(tokenId, systemId) ==
    IF systemId # "" THEN systemId ELSE tokenId

\* self.get_tokeninfo("sms.identifier") or get_from_config("sms.identifier")
GatewayIdentifier(tokenId, systemId) ==
    IF tokenId # "" THEN tokenId ELSE systemId

\* the provider _send_sms builds: the gateway of the identifier (new style),
\* or the provider of "sms.provider" / "sms.providerConfig" (old style)
Provider(tokenId, systemId) ==
    IF GatewayIdentifier(tokenId, systemId) # ""
    THEN [style |-> "gateway",
          identifier |-> GatewayIdentifier(tokenId, systemId)]
    ELSE [style |-> "legacy", identifier |-> ""]
NoProvider == [style |-> "none", identifier |-> ""]

\* building the provider: it works or it raises
ProviderLoads == {"loaded", "load_raises"}
\* the channel operation: its result, or it raises
ChannelResults == {"sent", "refused", "channel_raises"}
NoMessage == <<"None">>

\* what get_user_phone("mobile") returns: a string or a list of strings
UserPhones == {[isList |-> FALSE, items |-> <<>>], [isList |-> FALSE, items |-> <<"+491">>], [isList |-> TRUE, items |-> <<>>], [isList |-> TRUE, items |-> <<"+491", "+492">>]}
NoUserPhone == [isList |-> FALSE, items |-> <<>>]
\* the inputs of the destination: a gateway that addresses users by
\* identifier, with the user of the request ("" is no user or no login), the
\* name of the token info attribute the gateway is configured with ("" is
\* none) and that attribute of the token; a gateway that addresses phones,
\* the token using the phone of its user; a gateway that addresses phones,
\* the token using its own phone
DestinationCases ==
    {[sendToUid |-> TRUE, login |-> l, uidAttribute |-> a, tokenUid |-> u, dynamicPhone |-> FALSE, userPhone |-> NoUserPhone, tokenPhone |-> ""] : l \in {"", "alice"}, a \in {"", "uid"}, u \in {"", "u17"}}
    \cup {[sendToUid |-> FALSE, login |-> "", uidAttribute |-> "", tokenUid |-> "", dynamicPhone |-> TRUE, userPhone |-> p, tokenPhone |-> ""] : p \in UserPhones}
    \cup {[sendToUid |-> FALSE, login |-> "", uidAttribute |-> "", tokenUid |-> "", dynamicPhone |-> FALSE, userPhone |-> NoUserPhone, tokenPhone |-> p] : p \in {"", "+490"}}
NoDestinationCase == [sendToUid |-> FALSE, login |-> "", uidAttribute |-> "", tokenUid |-> "", dynamicPhone |-> FALSE, userPhone |-> NoUserPhone, tokenPhone |-> ""]

\* the uid branch: the login of the user, else the configured attribute of
\* the token; "" is None
Uid(dest) ==
    IF dest.login # "" THEN dest.login
    ELSE IF dest.uidAttribute # "" THEN dest.tokenUid
    ELSE ""
\* the phone branch: the first entry of a non-empty list, else the value
\* as it is; "[]" is the empty list, "" is None or the empty string
Phone(dest) ==
    IF dest.dynamicPhone
    THEN IF dest.userPhone.items # <<>> THEN dest.userPhone.items[1]
         ELSE IF dest.userPhone.isList THEN "[]" ELSE ""
    ELSE dest.tokenPhone
\* the destination the channel operation is called with
Destination(dest) == IF dest.sendToUid THEN Uid(dest) ELSE Phone(dest)
\* "if not uid", "if not phone"
NotResolved(destination) == destination \in {"", "[]"}

\* one _send_sms call
send_sms(template, tokenId, systemId, postcheck, load, channel, dest) ==
    LET message == Replaced(template)
        base == [raised |-> FALSE, rendered |-> FALSE, message |-> NoMessage,
                 provider |-> NoProvider, op |-> "none", handed |-> NoMessage,
                 destination |-> "", warned |-> FALSE, ret |-> FALSE]
    IN  IF FormatRaises(message)
        THEN [base EXCEPT !.raised = TRUE]
        ELSE IF load = "load_raises"
        THEN [base EXCEPT !.raised = TRUE, !.rendered = TRUE,
                          !.message = Format(message),
                          !.provider = Provider(tokenId, systemId)]
        ELSE [base EXCEPT !.raised = channel = "channel_raises",
                          !.rendered = TRUE,
                          !.message = Format(message),
                          !.provider = Provider(tokenId, systemId),
                          !.op = ChannelOp(postcheck),
                          !.handed = Format(message),
                          !.destination = Destination(dest),
                          !.warned = NotResolved(Destination(dest)),
                          !.ret = channel = "sent"]

\* a token with its gateway configuration, and the arguments of the call
InitSend ==
    /\ tokentype = "sms"
    /\ motp = MotpIdle
    /\ pin \in Pins
    /\ active = TRUE
    /\ count = 0
    /\ challenges = {}
    /\ created = 0
    /\ accepted = {}
    /\ call = CallNone
    /\ vchal = VChalIdle
    /\ fed = FedIdle
    /\ app = AppIdle
    /\ \E template \in Templates, tokenId \in TokenIdentifiers,
          systemId \in SystemIdentifiers, postcheck \in BOOLEAN :
          send = [pc |-> "ready", template |-> template, tokenId |-> tokenId,
                  systemId |-> systemId, postcheck |-> postcheck,
                  load |-> "none", channel |-> "none", raised |-> FALSE,
                  rendered |-> FALSE, message |-> NoMessage,
                  provider |-> NoProvider, op |-> "none",
                  handed |-> NoMessage, dest |-> NoDestinationCase,
                  destination |-> "", warned |-> FALSE, ret |-> FALSE]
    /\ workers = WorkersIdle

\* one call of SmsTokenClass._send_sms
SendSmsCall ==
    /\ send.pc = "ready"
    /\ \E load \in ProviderLoads, channel \in ChannelResults, dest \in DestinationCases :
          LET r == send_sms(send.template, send.tokenId, send.systemId,
                            send.postcheck, load, channel, dest)
          IN  send' = [send EXCEPT !.pc = "done",
                                   !.load = load,
                                   !.channel = channel,
                                   !.raised = r.raised,
                                   !.rendered = r.rendered,
                                   !.message = r.message,
                                   !.provider = r.provider,
                                   !.op = r.op,
                                   !.handed = r.handed,
                                   !.dest = dest,
                                   !.destination = r.destination,
                                   !.warned = r.warned,
                                   !.ret = r.ret]
    /\ UNCHANGED <<tokentype, motp, smsvars, vchal, fed, app, workers>>

NextSend == SendSmsCall

\* SmsTokenClass._send_sms alone
SpecSend == InitSend /\ [][NextSend]_vars

\* C33: _send_sms hands a message to the channel only when a destination
\* was resolved: when neither a user identifier nor a phone number can be
\* determined, no channel operation is invoked.
C33_NoDestinationNoChannelOp ==
    (send.pc = "done" /\ send.warned) => send.op = "none"

\* C21: _send_sms uses the gateway of the token's own sms.identifier if the
\* token has one, whatever the system-wide identifier is; the system-wide
\* identifier only when the token has none; the legacy provider
\* configuration only when neither is set.
C21_TokenGatewayFirst ==
    (send.pc = "done" /\ send.rendered) =>
        /\ send.tokenId # ""
              => send.provider = [style |-> "gateway", identifier |-> send.tokenId]
        /\ (send.tokenId = "" /\ send.systemId # "")
              => send.provider = [style |-> "gateway", identifier |-> send.systemId]
        /\ send.provider.style = "legacy"
              <=> (send.tokenId = "" /\ send.systemId = "")

\* C21 witness: token and system both name a gateway and the token's one was
\* used for a message that went out.
C21_Witness ==
    /\ send.pc = "done"
    /\ send.tokenId = "tokengw"
    /\ send.systemId = "systemgw"
    /\ send.provider = [style |-> "gateway", identifier |-> "tokengw"]
    /\ send.op = "submit_message"
    /\ send.ret

\* the template names a tag that is not provided
HasUnknownTag ==
    \E i \in 1..Len(send.template) : send.template[i] = "{nickname}"

\* C22: rendering never raises on an unknown named tag: it completes, and the
\* message is handed to the channel.
C22_UnknownTagDoesNotRaise ==
    (send.pc = "done" /\ HasUnknownTag /\ send.load = "loaded")
        => /\ send.rendered
           /\ send.op # "none"
           /\ send.handed # NoMessage

(***************************************************************************)
(* SmsTokenClass.create_challenge, calls running concurrently on one token *)
(* (active token, session other than enrollment): each access to the       *)
(* stored counter and to the challenge table is one step                   *)
(***************************************************************************)
\* number of create_challenge calls in flight
NumWorkers == 2
Workers == 1..NumWorkers

\* a create_challenge call that has not read anything yet
WorkerStart ==
    [pc |-> "start", counter |-> 0, otp |-> NoneVal, data |-> NoneVal,
     handed |-> FALSE, saved |-> FALSE]

\* an active SMS token with counter 0 and no challenge; the calls are about
\* to start; sms.concurrent_challenges is on or off
InitRace ==
    /\ tokentype = "sms"
    /\ motp = MotpIdle
    /\ pin \in Pins
    /\ active = TRUE
    /\ count = 0
    /\ challenges = {}
    /\ created = 0
    /\ accepted = {}
    /\ \E concurrent \in BOOLEAN :
          call = [CallNone EXCEPT !.op = "concurrent", !.concurrent = concurrent]
    /\ vchal = VChalIdle
    /\ fed = FedIdle
    /\ app = AppIdle
    /\ send = SendIdle
    /\ workers = [w \in Workers |-> WorkerStart]

\* counter = self.get_otp_count()
RaceReadCounter(w) ==
    /\ workers[w].pc = "start"
    /\ workers' = [workers EXCEPT ![w].pc = "inc", ![w].counter = count]
    /\ UNCHANGED <<tokentype, motp, smsvars, vchal, fed, app, send>>

\* self.inc_otp_counter(counter, reset=False)
RaceIncCounter(w) ==
    /\ workers[w].pc = "inc"
    /\ count' = inc_otp_counter(workers[w].counter)
    /\ workers' = [workers EXCEPT ![w].pc = "send"]
    /\ UNCHANGED <<tokentype, motp, pin, active, challenges, created, accepted,
                   call, vchal, fed, app, send>>

\* self._send_sms(...): otp = self.get_otp()[2] is the OTP of the stored
\* counter; the channel takes the message or raises
RaceSendSms(w) ==
    /\ workers[w].pc = "send"
    /\ \E delivery \in {"sent", "raise_channel"} :
          workers' = [workers EXCEPT
                        ![w].pc = IF SendSms(count, FALSE, delivery).raised
                                  THEN "done" ELSE "data",
                        ![w].otp = SendSms(count, FALSE, delivery).ops[1].otp,
                        ![w].handed = TRUE]
    /\ UNCHANGED <<tokentype, motp, smsvars, vchal, fed, app, send>>

\* if is_true(get_from_config("sms.concurrent_challenges")):
\*     data = self.get_otp()[2]
RaceReadData(w) ==
    /\ workers[w].pc = "data"
    /\ workers' = [workers EXCEPT
                     ![w].pc = "save",
                     ![w].data = IF call.concurrent THEN HotpValue(count)
                                 ELSE NoneVal]
    /\ UNCHANGED <<tokentype, motp, smsvars, vchal, fed, app, send>>

\* db_challenge = Challenge(..., data=data, ...); db_challenge.save()
RaceSaveChallenge(w) ==
    /\ workers[w].pc = "save"
    /\ challenges' = challenges \cup {ChallengeRow(created, workers[w].data, "none")}
    /\ created' = created + 1
    /\ workers' = [workers EXCEPT ![w].pc = "done", ![w].saved = TRUE]
    /\ UNCHANGED <<tokentype, motp, pin, active, count, accepted, call, vchal,
                   fed, app, send>>

\* a check_otp call of another request on the same token, with the valid OTP
\* of a counter of its window: the stored counter advances past the match
RaceCheckOtp ==
    /\ accepted = {}
    /\ \E w \in Workers : workers[w].pc # "done"
    /\ \E window \in CountWindows, m \in count..(count + MaxCountWindow) :
          /\ HotpCheckOtp(HotpValue(m), count, window).ret >= 0
          /\ count' = HotpCheckOtp(HotpValue(m), count, window).count
          /\ accepted' = {Acceptance(HotpValue(m), count, window)}
    /\ UNCHANGED <<tokentype, motp, pin, active, challenges, created, call,
                   vchal, fed, app, send, workers>>

NextRace ==
    \/ \E w \in Workers :
          \/ RaceReadCounter(w)
          \/ RaceIncCounter(w)
          \/ RaceSendSms(w)
          \/ RaceReadData(w)
          \/ RaceSaveChallenge(w)
    \/ RaceCheckOtp

\* concurrent create_challenge calls on one SMS token
SpecRace == InitRace /\ [][NextRace]_vars

\* every create_challenge call has returned
AllReturned == \A w \in Workers : workers[w].pc = "done"

\* C31: after any interleaving of k create_challenge calls (and no other
\* call) the counter has advanced by k and the k messages carry the OTPs of
\* k distinct counters.
C31_EachCallAdvancesByOne ==
    (workers # WorkersIdle /\ AllReturned /\ accepted = {}) =>
        /\ count = NumWorkers
        /\ \A v, w \in Workers : v # w => workers[v].otp # workers[w].otp

\* C32: in concurrent-challenge mode the data of the challenge a
\* create_challenge call persisted is the OTP of the message that call sent,
\* under every interleaving with other create_challenge and check_otp calls.
C32_DataIsTheSentOtp ==
    (workers # WorkersIdle /\ call.concurrent) =>
        \A w \in Workers :
            workers[w].saved => workers[w].data = workers[w].otp

====
